---- MODULE Spec2Model ----
(***************************************************************************)
(* dns_fwd: a DNS rewriting proxy (github.com/totoCZ/dns_fwd).             *)
(*                                                                         *)
(* A domain name is a sequence of one-character strings, so that lower-    *)
(* casing, suffix tests, suffix trimming and case folding are computed on  *)
(* the characters as the Go code computes them on the bytes.               *)
(*                                                                         *)
(* One invocation of handleDNS runs per inbound query (one goroutine per   *)
(* query in the server).  An invocation is split where it blocks: at the   *)
(* synchronous upstream exchange of forwardQuery.                          *)
(***************************************************************************)
EXTENDS Integers, Sequences, FiniteSets, TLC

VARIABLES
    zones,          \* DNSHandler.zones: the set of ZoneConfig values of the map
    defaultPrefix,  \* DNSHandler.defaultPrefix
    negativeTTL,    \* DNSHandler.negativeTTL
    answerTTL,      \* DNSHandler.answerTTL
    pc,             \* per invocation: "idle", "exchange" (blocked in c.Exchange), "done"
    req,            \* per invocation: the client request (req *dns.Msg)
    frame,          \* per invocation: the locals zoneCfg, newName, originalName
    sent,           \* per invocation: the upstream exchanges started for this query
    resp,           \* per invocation: what the upstream exchange returned
    written,        \* per invocation: the messages passed to w.WriteMsg
    rw              \* the last direct application of rewriteQuery (SpecRewrite)

vars == <<zones, defaultPrefix, negativeTTL, answerTTL, pc, req, frame, sent, resp, written, rw>>

config == <<zones, defaultPrefix, negativeTTL, answerTTL>>

(***************************************************************************)
(* Bounds of the model.                                                    *)
(***************************************************************************)
MaxLabels == 2      \* labels in a query name
MaxRecs == 2        \* resource records in one upstream reply (all sections)
NumHandlers == 2    \* concurrent invocations of handleDNS (SpecConc)

(***************************************************************************)
(* Protocol constants of github.com/miekg/dns used by the program.         *)
(***************************************************************************)
TypeA == 1
TypeSOA == 6
TypeAAAA == 28
ClassINET == 1
RcodeSuccess == 0
RcodeServerFailure == 2
RcodeNameError == 3

DefaultNegativeTTL == 60
DefaultAnswerTTL == 300

Dot == <<".">>

(***************************************************************************)
(* strings.ToLower, strings.HasSuffix, strings.TrimSuffix,                 *)
(* strings.EqualFold on the model's alphabet.                              *)
(***************************************************************************)
LowerChar(c) ==
    CASE c = "A" -> "a"
      [] c = "B" -> "b"
      [] c = "S" -> "s"
      [] OTHER -> c

UpperChar(c) ==
    CASE c = "a" -> "A"
      [] c = "b" -> "B"
      [] c = "s" -> "S"
      [] OTHER -> c

RECURSIVE ToLower(_)
ToLower(s) ==
    IF s = <<>> THEN <<>> ELSE <<LowerChar(Head(s))>> \o ToLower(Tail(s))

RECURSIVE ToUpper(_)
ToUpper(s) ==
    IF s = <<>> THEN <<>> ELSE <<UpperChar(Head(s))>> \o ToUpper(Tail(s))

HasSuffix(s, suffix) ==
    /\ Len(s) >= Len(suffix)
    /\ SubSeq(s, Len(s) - Len(suffix) + 1, Len(s)) = suffix

TrimSuffix(s, suffix) ==
    IF HasSuffix(s, suffix) THEN SubSeq(s, 1, Len(s) - Len(suffix)) ELSE s

RECURSIVE EqualFold(_, _)
EqualFold(s, t) ==
    IF s = <<>> \/ t = <<>>
    THEN s = t
    ELSE /\ LowerChar(Head(s)) = LowerChar(Head(t))
         /\ EqualFold(Tail(s), Tail(t))

(***************************************************************************)
(* Inputs: query names, questions, requests, zone tables.                  *)
(***************************************************************************)
Labels == {<<"A">>, <<"b">>, <<"a", "b">>}

RECURSIVE NamesOf(_)
NamesOf(k) ==
    IF k = 0 THEN {}
    ELSE {l \o Dot : l \in Labels}
         \cup {l \o Dot \o n : l \in Labels, n \in NamesOf(k - 1)}

RECURSIVE LabelSeqs(_)
LabelSeqs(k) ==
    IF k = 0 THEN {}
    ELSE Labels \cup {l \o Dot \o n : l \in Labels, n \in LabelSeqs(k - 1)}

QueryNames == {Dot} \cup NamesOf(MaxLabels)

\* TXT, a type that is neither an address type nor SOA
OtherTypes == {16}

QueryTypes == {TypeA, TypeAAAA, TypeSOA} \cup OtherTypes

QueryIds == {1}

NoQuestionRequests == {[Id |-> id, Question |-> <<>>] : id \in QueryIds}

Requests ==
    NoQuestionRequests
    \cup {[Id |-> id, Question |-> <<[Name |-> n, Qtype |-> t]>>] :
            id \in QueryIds, n \in QueryNames, t \in QueryTypes}

ZoneConfigs ==
    { [Zone |-> <<"b", ".">>, Prefix |-> <<>>, Protocol |-> "udp", Upstream |-> "10.0.0.1:53"],
      [Zone |-> <<"a", ".", "B", ".">>, Prefix |-> <<"a">>, Protocol |-> "tcp", Upstream |-> "10.0.0.2:53"],
      [Zone |-> <<"a", "b", ".">>, Prefix |-> <<"a">>, Protocol |-> "tcp", Upstream |-> "10.0.0.3:53"] }

ZoneTables == SUBSET ZoneConfigs \ {{}}

DefaultPrefixes == {<<"s", "-">>}

\* The orders in which `for _, cfg := range h.zones` can visit the map.
IterationOrders(T) ==
    {o \in [1..Cardinality(T) -> T] : \A z \in T : \E i \in 1..Cardinality(T) : o[i] = z}

NoZone == [Zone |-> <<>>, Prefix |-> <<>>, Protocol |-> "", Upstream |-> ""]
NoMsg == [Id |-> 0, Question |-> <<>>]
NoFrame == [zoneCfg |-> NoZone, newName |-> <<>>, originalName |-> <<>>]
NoResp == [kind |-> "none"]
NoRw == [applied |-> FALSE]

(***************************************************************************)
(* Messages.  new(dns.Msg) is the zero message; SetReply and SetRcode are  *)
(* the library's: SetReply copies the request's id and first question,     *)
(* marks the message a response and sets its status to RcodeSuccess;       *)
(* SetRcode is SetReply followed by the assignment of the status.          *)
(***************************************************************************)
NewMsg ==
    [Id |-> 0, Response |-> FALSE, Rcode |-> RcodeSuccess,
     Question |-> <<>>, Answer |-> <<>>, Ns |-> <<>>, Extra |-> <<>>]

SetReply(m, request) ==
    [m EXCEPT !.Id = request.Id,
              !.Response = TRUE,
              !.Rcode = RcodeSuccess,
              !.Question = IF Len(request.Question) > 0
                           THEN <<request.Question[1]>>
                           ELSE m.Question]

SetRcode(m, request, rcode) ==
    [SetReply(m, request) EXCEPT !.Rcode = rcode]

(***************************************************************************)
(* createLocalSOA                                                          *)
(***************************************************************************)
createLocalSOA(zone) ==
    [Name |-> zone, Rrtype |-> TypeSOA, Class |-> ClassINET, Ttl |-> negativeTTL,
     Ns |-> "dns-pod.hetmer.net.", Mbox |-> "pod.hetmer.net.",
     Serial |-> 1, Refresh |-> 3600, Retry |-> 600, Expire |-> 86400,
     Minttl |-> negativeTTL]

(***************************************************************************)
(* selectZoneForName: the first zone of the iteration order that the name  *)
(* equals (apex) or that the name ends with "." + zone (subdomain).        *)
(***************************************************************************)
\* the suffix test without the label boundary
MatchesZoneNoDot(name, zone) == HasSuffix(name, zone)

MatchesZone(name, zone) == HasSuffix(name, Dot \o zone)

RECURSIVE selectFrom(_, _, _)
selectFrom(name, order, i) ==
    IF i > Len(order)
    THEN [cfg |-> NoZone, ok |-> FALSE, isApex |-> FALSE]
    ELSE LET cfg == order[i]
             zone == ToLower(cfg.Zone)
         IN  IF name = zone
             THEN [cfg |-> cfg, ok |-> TRUE, isApex |-> TRUE]
             ELSE IF MatchesZone(name, zone)
                  THEN [cfg |-> cfg, ok |-> TRUE, isApex |-> FALSE]
                  ELSE selectFrom(name, order, i + 1)

selectZoneForName(name, order) == selectFrom(ToLower(name), order, 1)

(***************************************************************************)
(* rewriteQuery                                                            *)
(***************************************************************************)
\* rewriteQuery ignoring the zone's prefix override
rewriteQueryDefaultPrefix(name, cfg) ==
    LET lname == ToLower(name)
        zone == ToLower(cfg.Zone)
        subdomain == TrimSuffix(lname, Dot \o zone)
    IN  IF subdomain = <<>>
        THEN [name |-> <<>>, err |-> TRUE]
        ELSE [name |-> defaultPrefix \o subdomain \o Dot, err |-> FALSE]

rewriteQuery(name, cfg) ==
    LET lname == ToLower(name)
        zone == ToLower(cfg.Zone)
        subdomain == TrimSuffix(lname, Dot \o zone)
        prefix == IF cfg.Prefix = <<>> THEN defaultPrefix ELSE cfg.Prefix
    IN  IF subdomain = <<>>
        THEN [name |-> <<>>, err |-> TRUE]
        ELSE [name |-> prefix \o subdomain \o Dot, err |-> FALSE]

(***************************************************************************)
(* forwardQuery: the query it builds and the exchange it starts.           *)
(***************************************************************************)
\* forwardQuery without m.Id = originalReq.Id
forwardQueryOwnId(originalReq, name, proto, upstream) ==
    [Net |-> proto, Addr |-> upstream,
     Msg |-> [Id |-> 0, RecursionDesired |-> TRUE,
              Question |-> <<[Name |-> name, Qtype |-> originalReq.Question[1].Qtype]>>]]

forwardQuery(originalReq, name, proto, upstream) ==
    [Net |-> proto, Addr |-> upstream,
     Msg |-> [Id |-> originalReq.Id, RecursionDesired |-> TRUE,
              Question |-> <<[Name |-> name, Qtype |-> originalReq.Question[1].Qtype]>>]]

(***************************************************************************)
(* handleDNS up to the upstream exchange: either the message it writes     *)
(* before returning, or the exchange it starts.                            *)
(***************************************************************************)
\* the type filter refusing only SOA
AllowedTypeNotSOA(qtype) == qtype # TypeSOA

AllowedType(qtype) == qtype = TypeA \/ qtype = TypeAAAA

Reply(m) == [kind |-> "reply", msg |-> m]

handleBeforeExchange(request, order) ==
    IF Len(request.Question) = 0
    THEN Reply(SetRcode(NewMsg, request, RcodeServerFailure))
    ELSE
    LET q == request.Question[1]
        originalName == q.Name
        normalizedName == ToLower(originalName)
        sel == selectZoneForName(normalizedName, order)
        zoneCfg == sel.cfg
    IN  IF ~sel.ok
        THEN Reply([SetRcode(NewMsg, request, RcodeNameError)
                      EXCEPT !.Ns = <<createLocalSOA(<<"i", "n", "v", "a", "l", "i", "d", ".">>)>>])
        ELSE IF sel.isApex
        THEN IF q.Qtype = TypeSOA
             THEN Reply([SetRcode(NewMsg, request, RcodeSuccess)
                           EXCEPT !.Answer = <<createLocalSOA(zoneCfg.Zone)>>])
             ELSE Reply([SetRcode(NewMsg, request, RcodeSuccess)
                           EXCEPT !.Ns = <<createLocalSOA(zoneCfg.Zone)>>])
        ELSE IF ~AllowedType(q.Qtype)
        THEN Reply([SetRcode(NewMsg, request, RcodeNameError)
                      EXCEPT !.Ns = <<createLocalSOA(zoneCfg.Zone)>>])
        ELSE LET rewritten == rewriteQuery(normalizedName, zoneCfg)
             IN  IF rewritten.err
                 THEN Reply(SetRcode(NewMsg, request, RcodeServerFailure))
                 ELSE [kind |-> "forward",
                       frame |-> [zoneCfg |-> zoneCfg, newName |-> rewritten.name,
                                  originalName |-> originalName],
                       exchange |-> forwardQuery(request, rewritten.name,
                                                 zoneCfg.Protocol, zoneCfg.Upstream)]

(***************************************************************************)
(* handleDNS after a successful exchange: authority replacement on         *)
(* NXDOMAIN, SetReply, the owner-name/TTL rewrite of the three sections.   *)
(***************************************************************************)
\* the owner-name test comparing case-sensitively
OwnerMatchesExact(rr, newName) == rr.Name = newName

OwnerMatches(rr, newName) == EqualFold(rr.Name, newName)

RECURSIVE RewriteRRs(_, _, _)
RewriteRRs(rrs, newName, originalName) ==
    IF rrs = <<>> THEN <<>>
    ELSE LET rr == Head(rrs)
         IN  <<IF OwnerMatches(rr, newName)
               THEN [rr EXCEPT !.Name = originalName, !.Ttl = answerTTL]
               ELSE rr>>
             \o RewriteRRs(Tail(rrs), newName, originalName)

ReplaceUpstreamSOA(r, zoneCfg) ==
    IF r.Rcode = RcodeNameError
    THEN [r EXCEPT !.Ns = <<createLocalSOA(zoneCfg.Zone)>>]
    ELSE r

\* the reconciliation without resp.SetReply(req)
handleAfterExchangeNoSetReply(request, f, r) ==
    LET r1 == ReplaceUpstreamSOA(r, f.zoneCfg)
    IN  [r1 EXCEPT !.Answer = RewriteRRs(r1.Answer, f.newName, f.originalName),
                   !.Ns = RewriteRRs(r1.Ns, f.newName, f.originalName),
                   !.Extra = RewriteRRs(r1.Extra, f.newName, f.originalName)]

handleAfterExchange(request, f, r) ==
    LET r1 == ReplaceUpstreamSOA(r, f.zoneCfg)
        r2 == SetReply(r1, request)
    IN  [r2 EXCEPT !.Answer = RewriteRRs(r2.Answer, f.newName, f.originalName),
                   !.Ns = RewriteRRs(r2.Ns, f.newName, f.originalName),
                   !.Extra = RewriteRRs(r2.Extra, f.newName, f.originalName)]

(***************************************************************************)
(* What an upstream can return for the query it was sent.                  *)
(***************************************************************************)
\* REFUSED, a status the program itself never sets
OtherRcodes == {5}

UpstreamRcodes == {RcodeSuccess, RcodeNameError} \cup OtherRcodes

UpstreamTTLs == {7}

UpstreamRRs(m) ==
    LET q == m.Question[1]
    IN  {[Name |-> n, Rrtype |-> q.Qtype, Class |-> ClassINET, Ttl |-> t] :
            n \in {q.Name, ToUpper(q.Name), <<"o", ".">>}, t \in UpstreamTTLs}

RECURSIVE SeqsOfLen(_, _)
SeqsOfLen(S, k) ==
    IF k = 0 THEN {<<>>}
    ELSE {<<x>> \o s : x \in S, s \in SeqsOfLen(S, k - 1)}

SectionSplits ==
    {s \in (0..MaxRecs) \X (0..MaxRecs) \X (0..MaxRecs) : s[1] + s[2] + s[3] <= MaxRecs}

UpstreamReplies(m) ==
    UNION { {[Id |-> m.Id, Response |-> TRUE, Rcode |-> rc, Question |-> m.Question,
              Answer |-> a, Ns |-> n, Extra |-> e] :
                rc \in UpstreamRcodes,
                a \in SeqsOfLen(UpstreamRRs(m), s[1]),
                n \in SeqsOfLen(UpstreamRRs(m), s[2]),
                e \in SeqsOfLen(UpstreamRRs(m), s[3])} : s \in SectionSplits }

(***************************************************************************)
(* The steps of one invocation h of handleDNS.                             *)
(***************************************************************************)
HandleQuery(h, request) ==
    /\ pc[h] = "idle"
    /\ \E order \in IterationOrders(zones) :
         LET d == handleBeforeExchange(request, order)
         IN  /\ req' = [req EXCEPT ![h] = request]
             /\ IF d.kind = "reply"
                THEN /\ written' = [written EXCEPT ![h] = Append(written[h], d.msg)]
                     /\ pc' = [pc EXCEPT ![h] = "done"]
                     /\ UNCHANGED <<frame, sent>>
                ELSE /\ frame' = [frame EXCEPT ![h] = d.frame]
                     /\ sent' = [sent EXCEPT ![h] = Append(sent[h], d.exchange)]
                     /\ pc' = [pc EXCEPT ![h] = "exchange"]
                     /\ UNCHANGED written
    /\ UNCHANGED <<config, resp, rw>>

\* the locals of handleDNS kept in a place the invocations share
ExchangeReturnsSharedFrame(h, r) ==
    /\ pc[h] = "exchange"
    /\ \E g \in DOMAIN pc :
         /\ pc[g] = "exchange"
         /\ written' = [written EXCEPT ![h] =
                          Append(written[h], handleAfterExchange(req[h], frame[g], r))]
    /\ resp' = [resp EXCEPT ![h] = [kind |-> "msg", msg |-> r]]
    /\ pc' = [pc EXCEPT ![h] = "done"]
    /\ UNCHANGED <<config, req, frame, sent, rw>>

ExchangeReturns(h, r) ==
    /\ pc[h] = "exchange"
    /\ resp' = [resp EXCEPT ![h] = [kind |-> "msg", msg |-> r]]
    /\ written' = [written EXCEPT ![h] =
                     Append(written[h], handleAfterExchange(req[h], frame[h], r))]
    /\ pc' = [pc EXCEPT ![h] = "done"]
    /\ UNCHANGED <<config, req, frame, sent, rw>>

ExchangeFails(h) ==
    /\ pc[h] = "exchange"
    /\ resp' = [resp EXCEPT ![h] = [kind |-> "error"]]
    /\ written' = [written EXCEPT ![h] =
                     Append(written[h], SetRcode(NewMsg, req[h], RcodeServerFailure))]
    /\ pc' = [pc EXCEPT ![h] = "done"]
    /\ UNCHANGED <<config, req, frame, sent, rw>>

Return(h) ==
    /\ pc[h] = "done"
    /\ pc' = [pc EXCEPT ![h] = "idle"]
    /\ req' = [req EXCEPT ![h] = NoMsg]
    /\ frame' = [frame EXCEPT ![h] = NoFrame]
    /\ sent' = [sent EXCEPT ![h] = <<>>]
    /\ resp' = [resp EXCEPT ![h] = NoResp]
    /\ written' = [written EXCEPT ![h] = <<>>]
    /\ UNCHANGED <<config, rw>>

(***************************************************************************)
(* Spec: one invocation at a time, every request and every upstream reply  *)
(* of the bounded input sets, every zone table.                            *)
(***************************************************************************)
InitConfig(tables) ==
    /\ zones \in tables
    /\ defaultPrefix \in DefaultPrefixes
    /\ negativeTTL = DefaultNegativeTTL
    /\ answerTTL = DefaultAnswerTTL

InitHandlers(H) ==
    /\ pc = [h \in H |-> "idle"]
    /\ req = [h \in H |-> NoMsg]
    /\ frame = [h \in H |-> NoFrame]
    /\ sent = [h \in H |-> <<>>]
    /\ resp = [h \in H |-> NoResp]
    /\ written = [h \in H |-> <<>>]
    /\ rw = NoRw

Init ==
    /\ InitConfig(ZoneTables)
    /\ InitHandlers({1})

SomeHandleQuery ==
    \E h \in DOMAIN pc, request \in Requests : HandleQuery(h, request)

SomeExchangeReturns ==
    \E h \in DOMAIN pc :
        /\ pc[h] = "exchange"
        /\ \E r \in UpstreamReplies(sent[h][1].Msg) : ExchangeReturns(h, r)

SomeExchangeFails == \E h \in DOMAIN pc : ExchangeFails(h)

SomeReturn == \E h \in DOMAIN pc : Return(h)

Next ==
    \/ SomeHandleQuery
    \/ SomeExchangeReturns
    \/ SomeExchangeFails
    \/ SomeReturn

Spec == Init /\ [][Next]_vars
(***************************************************************************)
(* handleDNS as one sequential run: the messages an invocation writes when *)
(* it runs alone on a request, with the map visited in a given order and   *)
(* the upstream exchange (if one is started) ending in a given outcome.    *)
(***************************************************************************)
handleDNS(request, order, outcome) ==
    LET d == handleBeforeExchange(request, order)
    IN  IF d.kind = "reply"
        THEN <<d.msg>>
        ELSE IF outcome.kind = "msg"
             THEN <<handleAfterExchange(request, d.frame, outcome.msg)>>
             ELSE <<SetRcode(NewMsg, request, RcodeServerFailure)>>

(***************************************************************************)
(* SpecRewrite: rewriteQuery applied directly to a name and a zone of the  *)
(* table.                                                                  *)
(***************************************************************************)
RewriteInputs(cfg) ==
    QueryNames \cup {L \o Dot \o cfg.Zone : L \in LabelSeqs(MaxLabels)}

ApplyRewrite ==
    /\ \E cfg \in zones :
         \E name \in RewriteInputs(cfg) :
            rw' = [applied |-> TRUE, name |-> name, cfg |-> cfg,
                   result |-> rewriteQuery(name, cfg)]
    /\ UNCHANGED <<config, pc, req, frame, sent, resp, written>>

InitRewrite ==
    /\ InitConfig(ZoneTables)
    /\ InitHandlers({1})

NextRewrite == ApplyRewrite

SpecRewrite == InitRewrite /\ [][NextRewrite]_vars

(***************************************************************************)
(* SpecConc: NumHandlers invocations in flight at once, interleaved at     *)
(* every step, on a small set of requests and upstream replies.            *)
(***************************************************************************)
ConcTables == {ZoneConfigs}

ConcRequests ==
    { [Id |-> 1, Question |-> <<>>],
      [Id |-> 1, Question |-> <<[Name |-> <<"A", ".", "b", ".">>, Qtype |-> TypeA]>>],
      [Id |-> 2, Question |-> <<[Name |-> <<"b", ".", "a", "b", ".">>, Qtype |-> TypeAAAA]>>],
      [Id |-> 2, Question |-> <<[Name |-> <<"a", "b", ".">>, Qtype |-> TypeSOA]>>],
      [Id |-> 1, Question |-> <<[Name |-> <<"A", ".">>, Qtype |-> TypeA]>>] }

ConcReplies(m) ==
    LET q == m.Question[1]
        rr == [Name |-> ToUpper(q.Name), Rrtype |-> q.Qtype, Class |-> ClassINET, Ttl |-> 7]
    IN  { [Id |-> m.Id, Response |-> TRUE, Rcode |-> RcodeSuccess, Question |-> m.Question,
           Answer |-> <<rr>>, Ns |-> <<>>, Extra |-> <<>>],
          [Id |-> m.Id, Response |-> TRUE, Rcode |-> RcodeNameError, Question |-> m.Question,
           Answer |-> <<>>, Ns |-> <<rr>>, Extra |-> <<>>] }

ConcHandleQuery ==
    \E h \in DOMAIN pc, request \in ConcRequests : HandleQuery(h, request)

ConcExchangeReturns ==
    \E h \in DOMAIN pc :
        /\ pc[h] = "exchange"
        /\ \E r \in ConcReplies(sent[h][1].Msg) : ExchangeReturns(h, r)

InitConc ==
    /\ InitConfig(ConcTables)
    /\ InitHandlers(1..NumHandlers)

NextConc ==
    \/ ConcHandleQuery
    \/ ConcExchangeReturns
    \/ SomeExchangeFails
    \/ SomeReturn

SpecConc == InitConc /\ [][NextConc]_vars
(***************************************************************************)
(* Vocabulary of the properties, stated on names and messages directly.    *)
(***************************************************************************)
HasQuestion(h) == pc[h] # "idle" /\ Len(req[h].Question) > 0

QName(h) == req[h].Question[1].Name

QType(h) == req[h].Question[1].Qtype

\* name equals zone, ignoring case
IsApexOf(name, zone) == ToLower(name) = ToLower(zone)

\* name = L + "." + zone for a non-empty L, ignoring case
IsProperSubdomainOf(name, zone) ==
    /\ Len(name) > Len(zone) + 1
    /\ SubSeq(ToLower(name), Len(name) - Len(zone), Len(name)) = Dot \o ToLower(zone)

\* the L of name = L + "." + zone, lower-cased
LabelsBelow(name, zone) == SubSeq(ToLower(name), 1, Len(name) - Len(zone) - 1)

EffectivePrefix(cfg) == IF cfg.Prefix # <<>> THEN cfg.Prefix ELSE defaultPrefix

\* the SOA the program synthesizes for a zone, field for field
IsLocalSOA(rr, zone) ==
    /\ DOMAIN rr = {"Name", "Rrtype", "Class", "Ttl", "Ns", "Mbox", "Serial",
                    "Refresh", "Retry", "Expire", "Minttl"}
    /\ rr.Name = zone
    /\ rr.Rrtype = TypeSOA
    /\ rr.Class = ClassINET
    /\ rr.Ttl = negativeTTL
    /\ rr.Minttl = negativeTTL
    /\ rr.Ns = "dns-pod.hetmer.net."
    /\ rr.Mbox = "pod.hetmer.net."
    /\ rr.Serial = 1 /\ rr.Refresh = 3600 /\ rr.Retry = 600 /\ rr.Expire = 86400

UpstreamAnswered(h) == pc[h] = "done" /\ resp[h].kind = "msg"

UpstreamSaidNXDomain(h) == UpstreamAnswered(h) /\ resp[h].msg.Rcode = RcodeNameError

RewrittenFrom(post, pre, h) ==
    /\ Len(post) = Len(pre)
    /\ \A i \in 1..Len(pre) :
         IF ToLower(pre[i].Name) = ToLower(frame[h].newName)
         THEN /\ post[i].Name = QName(h)
              /\ post[i].Ttl = answerTTL
              /\ post[i] = [pre[i] EXCEPT !.Name = QName(h), !.Ttl = answerTTL]
         ELSE post[i] = pre[i]

AuthorityBeforeRewrite(h) ==
    IF resp[h].msg.Rcode = RcodeNameError
    THEN <<createLocalSOA(frame[h].zoneCfg.Zone)>>
    ELSE resp[h].msg.Ns

Unmatched(name) ==
    \A Z \in zones :
        /\ ToLower(name) # ToLower(Z.Zone)
        /\ \A k \in 1..Len(name) :
             SubSeq(ToLower(name), k, Len(name)) # Dot \o ToLower(Z.Zone)

UnderSomeZone(name) == \E Z \in zones : IsProperSubdomainOf(name, Z.Zone)

ApexOfSomeZone(name) == \E Z \in zones : IsApexOf(name, Z.Zone)

RefusedWithZoneSOA(h) ==
    /\ pc[h] = "done"
    /\ sent[h] = <<>>
    /\ Len(written[h]) = 1
    /\ written[h][1].Rcode = RcodeNameError
    /\ written[h][1].Answer = <<>>
    /\ Len(written[h][1].Ns) = 1
    /\ \E Z \in zones :
         /\ IsProperSubdomainOf(QName(h), Z.Zone)
         /\ IsLocalSOA(written[h][1].Ns[1], Z.Zone)

ExchangeOnlyForAddressQueries(h) ==
    sent[h] # <<>> =>
        /\ HasQuestion(h)
        /\ QType(h) \in {TypeA, TypeAAAA}
        /\ UnderSomeZone(QName(h))

ReachedForwarding(h) == pc[h] = "exchange" \/ (pc[h] = "done" /\ resp[h].kind # "none")

IsExchangeFor(x, h, Z) ==
    /\ IsProperSubdomainOf(QName(h), Z.Zone)
    /\ x.Net = Z.Protocol
    /\ x.Addr = Z.Upstream
    /\ x.Msg.Question =
         <<[Name |-> EffectivePrefix(Z) \o LabelsBelow(QName(h), Z.Zone) \o Dot,
            Qtype |-> QType(h)]>>
    /\ x.Msg.Id = req[h].Id
    /\ x.Msg.RecursionDesired

\* the outcome is one a run in this order can meet: none when the run ends before any
\* exchange, else an error or a reply to the question the run sends upstream
OutcomeOf(request, order, outcome) ==
    LET d == handleBeforeExchange(request, order)
    IN  IF d.kind = "reply"
        THEN outcome.kind = "none"
        ELSE \/ outcome.kind = "error"
             \/ outcome.kind = "msg" /\ outcome.msg.Question = d.exchange.Msg.Question

AloneWrites(request, outcome) ==
    {handleDNS(request, order, outcome) :
        order \in {o \in IterationOrders(zones) : OutcomeOf(request, o, outcome)}}

OthersNotBlocked ==
    \A h \in DOMAIN pc :
        pc[h] = "exchange" =>
            \A g \in DOMAIN pc \ {h} :
                /\ pc[g] = "idle" =>
                     ENABLED (\E request \in ConcRequests : HandleQuery(g, request))
                /\ pc[g] = "exchange" =>
                     /\ ENABLED ExchangeFails(g)
                     /\ ENABLED (\E r \in ConcReplies(sent[g][1].Msg) : ExchangeReturns(g, r))
                /\ pc[g] = "done" => ENABLED Return(g)

WritesAsAlone ==
    \A h \in DOMAIN pc :
        (written'[h] # written[h] /\ written'[h] # <<>>) =>
            /\ written[h] = <<>>
            /\ written'[h] \in AloneWrites(req'[h], resp'[h])
            /\ \A g \in DOMAIN pc \ {h} : written'[g] = written[g]

(***************************************************************************)
(* C1: when the single upstream exchange of an A/AAAA query on a proper    *)
(* subdomain returns a message with status NameError, the message written  *)
(* to the client has status NameError.                                     *)
(***************************************************************************)
C1_UpstreamNXDomainReachesClient ==
    \A h \in DOMAIN pc :
        UpstreamSaidNXDomain(h) =>
            /\ Len(written[h]) = 1
            /\ written[h][1].Rcode = RcodeNameError

(***************************************************************************)
(* C2: whenever the upstream status is NameError, the authority section    *)
(* written to the client is exactly one record, field for field the        *)
(* matched zone's synthesized SOA (owner = zone, TTL = Minttl =            *)
(* negativeTTL), whatever the zone, prefix and query name.                 *)
(***************************************************************************)
C2_NXDomainAuthorityIsZoneSOA ==
    \A h \in DOMAIN pc :
        UpstreamSaidNXDomain(h) =>
            /\ Len(written[h]) = 1
            /\ Len(written[h][1].Ns) = 1
            /\ IsLocalSOA(written[h][1].Ns[1], frame[h].zoneCfg.Zone)

(***************************************************************************)
(* C3: in each section of a forwarded response, as it stands before the    *)
(* rewrite loops, a record gets the client's original query name and       *)
(* answerTTL exactly when its owner name equals newName ignoring case; any *)
(* other record is unchanged; the number and order of records is kept.     *)
(***************************************************************************)
C3_RewriteExactlyMatchingRecords ==
    \A h \in DOMAIN pc :
        UpstreamAnswered(h) =>
            /\ Len(written[h]) = 1
            /\ RewrittenFrom(written[h][1].Answer, resp[h].msg.Answer, h)
            /\ RewrittenFrom(written[h][1].Ns, AuthorityBeforeRewrite(h), h)
            /\ RewrittenFrom(written[h][1].Extra, resp[h].msg.Extra, h)

\* a forwarded answer holding, in this order, a record owned by newName in another
\* case and a record of another owner, for a query name that is not lower case
C3_Witness ==
    \E h \in DOMAIN pc :
        /\ UpstreamAnswered(h)
        /\ QName(h) # ToLower(QName(h))
        /\ Len(resp[h].msg.Answer) = 2
        /\ resp[h].msg.Answer[1].Name # frame[h].newName
        /\ ToLower(resp[h].msg.Answer[1].Name) = frame[h].newName
        /\ ToLower(resp[h].msg.Answer[2].Name) # frame[h].newName
        /\ written[h][1].Answer[1].Name = QName(h)
        /\ written[h][1].Answer[1].Ttl = answerTTL
        /\ written[h][1].Answer[2] = resp[h].msg.Answer[2]

(***************************************************************************)
(* C4: a query name equal (ignoring case) to a configured zone Z is        *)
(* answered as the apex of Z: NOERROR, no upstream exchange, Z's SOA as    *)
(* the only answer record for type SOA, and an empty answer with Z's SOA   *)
(* as the only authority record for any other type, on every iteration     *)
(* order of the map and also when another zone is a dot-suffix of Z.       *)
(***************************************************************************)
C4_ApexOfEveryConfiguredZone ==
    \A h \in DOMAIN pc :
        HasQuestion(h) =>
            \A Z \in zones :
                IsApexOf(QName(h), Z.Zone) =>
                    /\ sent[h] = <<>>
                    /\ pc[h] = "done"
                    /\ Len(written[h]) = 1
                    /\ written[h][1].Rcode = RcodeSuccess
                    /\ IF QType(h) = TypeSOA
                       THEN /\ Len(written[h][1].Answer) = 1
                            /\ IsLocalSOA(written[h][1].Answer[1], Z.Zone)
                       ELSE /\ written[h][1].Answer = <<>>
                            /\ Len(written[h][1].Ns) = 1
                            /\ IsLocalSOA(written[h][1].Ns[1], Z.Zone)

(***************************************************************************)
(* C5: a query whose lower-cased name neither equals a configured zone nor *)
(* ends with "." + a configured zone gets NameError, an empty answer and   *)
(* exactly one authority record, a synthesized SOA, and no upstream        *)
(* exchange, whatever its type.                                            *)
(***************************************************************************)
C5_UnmatchedZoneIsNXDomain ==
    \A h \in DOMAIN pc :
        (HasQuestion(h) /\ Unmatched(QName(h))) =>
            /\ pc[h] = "done"
            /\ sent[h] = <<>>
            /\ Len(written[h]) = 1
            /\ written[h][1].Rcode = RcodeNameError
            /\ written[h][1].Answer = <<>>
            /\ Len(written[h][1].Ns) = 1
            /\ written[h][1].Ns[1].Rrtype = TypeSOA
            /\ written[h][1].Ns[1].Ttl = negativeTTL
            /\ written[h][1].Ns[1].Minttl = negativeTTL

\* an address query for a name that ends with a zone's characters but not at a label
\* boundary (ab. against zone b.) has been refused
C5_Witness ==
    \E h \in DOMAIN pc :
        /\ HasQuestion(h)
        /\ Unmatched(QName(h))
        /\ QType(h) = TypeA
        /\ \E Z \in zones : HasSuffix(ToLower(QName(h)), ToLower(Z.Zone))
        /\ pc[h] = "done"
        /\ written[h][1].Rcode = RcodeNameError
        /\ written[h][1].Ns[1].Name = <<"i", "n", "v", "a", "l", "i", "d", ".">>
(***************************************************************************)
(* C6 as stated: a query on a proper subdomain of a configured zone whose  *)
(* type is neither A nor AAAA gets NameError, an empty answer and exactly  *)
(* one authority record, the matched zone's SOA, with no upstream          *)
(* exchange; an upstream exchange is started only for A/AAAA queries on a  *)
(* proper subdomain of a configured zone.                                  *)
(***************************************************************************)
C6_Original ==
    \A h \in DOMAIN pc :
        /\ (HasQuestion(h) /\ UnderSomeZone(QName(h)) /\ QType(h) \notin {TypeA, TypeAAAA})
              => RefusedWithZoneSOA(h)
        /\ ExchangeOnlyForAddressQueries(h)

(***************************************************************************)
(* C6 amended: the same, for a query name that is a proper subdomain of a  *)
(* configured zone and is not itself equal (ignoring case) to a configured *)
(* zone.                                                                   *)
(***************************************************************************)
C6_NonAddressTypeIsNXDomain ==
    \A h \in DOMAIN pc :
        /\ (/\ HasQuestion(h)
            /\ UnderSomeZone(QName(h))
            /\ ~ApexOfSomeZone(QName(h))
            /\ QType(h) \notin {TypeA, TypeAAAA})
              => RefusedWithZoneSOA(h)
        /\ ExchangeOnlyForAddressQueries(h)

\* a TXT query on a proper subdomain has been refused with the zone's SOA
C6_Witness ==
    \E h \in DOMAIN pc :
        /\ HasQuestion(h)
        /\ UnderSomeZone(QName(h))
        /\ ~ApexOfSomeZone(QName(h))
        /\ QType(h) \in OtherTypes
        /\ RefusedWithZoneSOA(h)

(***************************************************************************)
(* C7: for a configured zone Z and a non-empty label sequence L,           *)
(* rewriteQuery(L + "." + Z, Z's config) returns, without error, prefix +  *)
(* lower-cased L + ".", with prefix Z's override when non-empty and the    *)
(* default prefix otherwise; the result ends with ".".                     *)
(***************************************************************************)
C7_RewriteIsPrefixPlusLabels ==
    rw.applied =>
        \A L \in LabelSeqs(MaxLabels) :
            rw.name = L \o Dot \o rw.cfg.Zone =>
                /\ rw.cfg \in zones
                /\ ~rw.result.err
                /\ rw.result.name = EffectivePrefix(rw.cfg) \o ToLower(L) \o Dot
                /\ rw.result.name[Len(rw.result.name)] = "."

\* rewriteQuery has been applied to an upper-case label under a zone that has a
\* prefix override and is itself not lower case
C7_Witness ==
    /\ rw.applied
    /\ rw.cfg.Prefix # <<>>
    /\ rw.cfg.Zone # ToLower(rw.cfg.Zone)
    /\ rw.name = <<"A">> \o Dot \o rw.cfg.Zone
    /\ rw.result = [name |-> rw.cfg.Prefix \o <<"a", ".">>, err |-> FALSE]

(***************************************************************************)
(* C8: a query that reaches forwarding performs exactly one upstream       *)
(* exchange: to the selected zone's upstream over its transport, for the   *)
(* rewritten name and the client's type, with the client's id and          *)
(* recursion desired; when the exchange fails the client gets SERVFAIL and *)
(* no second exchange is made.                                             *)
(***************************************************************************)
C8_ExactlyOneUpstreamExchange ==
    \A h \in DOMAIN pc :
        /\ Len(sent[h]) <= 1
        /\ ReachedForwarding(h) =>
             /\ Len(sent[h]) = 1
             /\ \E Z \in zones : Z = frame[h].zoneCfg /\ IsExchangeFor(sent[h][1], h, Z)
        /\ (pc[h] = "done" /\ resp[h].kind = "error") =>
             /\ Len(written[h]) = 1
             /\ written[h][1].Rcode = RcodeServerFailure
             /\ written[h][1].Id = req[h].Id
             /\ written[h][1].Answer = <<>>

\* an exchange over tcp has failed and the client has its SERVFAIL
C8_Witness ==
    \E h \in DOMAIN pc :
        /\ pc[h] = "done"
        /\ resp[h].kind = "error"
        /\ Len(sent[h]) = 1
        /\ sent[h][1].Net = "tcp"
        /\ written[h][1].Rcode = RcodeServerFailure

(***************************************************************************)
(* C9: an invocation writes exactly one message by the time it returns and *)
(* none before, on every path; its status is NOERROR, NXDOMAIN or          *)
(* SERVFAIL; after it the invocation returns and the next query of any     *)
(* kind can be handled.                                                    *)
(***************************************************************************)
C9_ExactlyOneResponse ==
    \A h \in DOMAIN pc :
        /\ pc[h] = "done" =>
             /\ Len(written[h]) = 1
             /\ written[h][1].Rcode \in {RcodeSuccess, RcodeNameError, RcodeServerFailure}
             /\ written[h][1].Response
             /\ ENABLED Return(h)
        /\ pc[h] # "done" => written[h] = <<>>
        /\ pc[h] = "idle" => ENABLED (\E request \in Requests : HandleQuery(h, request))

\* the upstream has answered REFUSED and the client has its one message
C9_Witness ==
    \E h \in DOMAIN pc :
        /\ UpstreamAnswered(h)
        /\ resp[h].msg.Rcode \in OtherRcodes
        /\ Len(written[h]) = 1
        /\ written[h][1].Rcode = RcodeSuccess

(***************************************************************************)
(* C10: under any interleaving of concurrent invocations, no step changes  *)
(* the zone table, the default prefix or the TTLs; a message an invocation *)
(* writes is one it writes when run alone on the same request with the     *)
(* same upstream outcome; and while an invocation is blocked in its        *)
(* exchange every other invocation can take its next step.                 *)
(***************************************************************************)
C10_ConcurrentHandlersIndependent ==
    [][config' = config /\ WritesAsAlone /\ OthersNotBlocked]_vars

\* one invocation is still blocked in its exchange while another, whose exchange for a
\* different name started meanwhile, has written its rewritten answer
C10_Witness ==
    \E h, g \in DOMAIN pc :
        /\ pc[h] = "exchange"
        /\ pc[g] = "done"
        /\ resp[g].kind = "msg"
        /\ frame[g].newName # frame[h].newName
        /\ Len(written[g]) = 1
        /\ written[g][1].Answer # <<>>
        /\ written[g][1].Answer[1].Name = QName(g)
====
